---- MODULE Spec2Model ----
(***************************************************************************)
(* Entitlement / usage gating and Stripe webhook reconciliation of the     *)
(* formai backend: src/dist/lib/entitlement.js, src/src/server.ts,         *)
(* src/src/routes/analyze.ts.  The relational store (Prisma/Postgres) is   *)
(* modelled as tables of rows; every awaited store call is one step.       *)
(***************************************************************************)
EXTENDS Integers, Sequences, FiniteSets, TLC

VARIABLES
    UsageCounter,   \* table: sequence of rows [deviceId, scansUsed]
    Subscription,   \* table: sequence of rows, in createdAt order
    DeviceMap,      \* table: sequence of rows [provider, key, deviceId]
    WebhookEvent,   \* table: event id |-> the number of rows with that id
    now,            \* the server clock, in milliseconds
    req,            \* the API requests / library calls in flight
    hook,           \* the /webhooks/stripe requests in flight
    lemon,          \* the last /webhooks/lemonsqueezy request and its outcome
    applied,        \* history: how often the switch was entered, per event id
    hist,           \* history: per subscription id, the writes events made to its row
    incrDone,       \* history: completed incrementScanUsage calls, per device
    Device          \* table: sequence of rows [id, lastSeen]

vars == <<UsageCounter, Subscription, DeviceMap, WebhookEvent, now, req, hook, lemon,
          applied, hist, incrDone, Device>>

Null == "null"

(* ------------------------------ bounds -------------------------------- *)
MaxTime == 1        \* clock ticks of one second the model lets pass
MaxScans == 2       \* direct incrementScanUsage calls started per device
NumCallers == 2     \* library calls / API requests in flight at once
NumHooks == 2       \* webhook requests in flight at once

Devices == {"d1", "d2"}
Callers == 1..NumCallers
Hooks == 1..NumHooks

(* --------------------------- program constants ------------------------ *)
FreeLimit == 1
MsPerSecond == 1000

(* ------------------------- the Stripe events -------------------------- *)
\* One record shape for event.data.object of every event type; a field an
\* object of that type does not carry is Null.
\* items holds price.recurring.interval of each entry of items.data, in order.
StripeObject(type, id, dev, mode, sub, cust, status, items, cpe, cape) ==
    [type |-> type, id |-> id, client_reference_id |-> dev,
     metadata_deviceId |-> dev, mode |-> mode, subscription |-> sub,
     customer |-> cust, status |-> status, items |-> items,
     current_period_end |-> cpe, cancel_at_period_end |-> cape]

Checkout(dev, sub, cust) ==
    StripeObject("checkout.session.completed", Null, dev, "subscription", sub,
                 cust, Null, <<>>, Null, FALSE)
SubEvent(type, sub, cust, status, items, cpe) ==
    StripeObject(type, sub, Null, Null, Null, cust, status, items, cpe, FALSE)
InvoiceEvent(type, sub) ==
    StripeObject(type, Null, Null, Null, sub, "c1", Null, <<>>, Null, FALSE)

\* The events the provider has signed: event id |-> payload.  A redelivery
\* carries the same id and the same payload.
StripeEvents ==
    [evt_1 |-> Checkout("d1", "s1", "c1"),
     evt_2 |-> Checkout("d2", "s2", "c1"),
     evt_3 |-> SubEvent("customer.subscription.created", "s1", "c1", "trialing", <<"year">>, 1),
     evt_4 |-> SubEvent("customer.subscription.updated", "s1", "c1", "active", <<"month">>, 1),
     evt_5 |-> SubEvent("customer.subscription.updated", "s2", "c1", "active", <<"month">>, 1),
     evt_6 |-> StripeObject("customer.subscription.deleted", "s1", Null, Null, Null,
                            "c1", "canceled", <<"month">>, 1, FALSE),
     evt_7 |-> InvoiceEvent("invoice.payment_failed", "s1"),
     evt_8 |-> InvoiceEvent("invoice.paid", "s1"),
     \* a subscription of another customer, and payloads without the fields
     \* their case reads: no device id, no subscription id
     evt_9 |-> SubEvent("customer.subscription.updated", "s2", "c2", "active", <<"month">>, 1),
     evt_10 |-> Checkout(Null, "s1", "c1"),
     evt_11 |-> Checkout("d1", Null, "c1"),
     evt_12 |-> InvoiceEvent("invoice.payment_failed", Null),
     evt_13 |-> InvoiceEvent("invoice.paid", Null),
     \* a checkout of another device and customer for the subscription id of evt_1
     evt_14 |-> Checkout("d2", "s1", "c2"),
     \* an event of a type the switch has no case for
     evt_15 |-> StripeObject("customer.created", "c1", Null, Null, Null, "c1",
                             Null, <<>>, 0, FALSE),
     \* updates of s1 whose first price item is neither monthly nor yearly, and
     \* one without price items, in statuses the entitlement check does not name
     evt_16 |-> SubEvent("customer.subscription.updated", "s1", "c1", "unpaid",
                         <<"week", "month">>, 1),
     evt_17 |-> SubEvent("customer.subscription.updated", "s1", "c1", "incomplete",
                         <<>>, 1)]

EventIds == DOMAIN StripeEvents
SubIds == {"s1", "s2"}

(* ------------------------------ the store ----------------------------- *)
\* A nullable timestamp column holding NULL.  Stored dates are positive.
NullDate == 0
\* The result of a findFirst / findUnique: no row, or the row.
None == <<>>
Some(row) == <<row>>

Max(S) == CHOOSE x \in S : \A y \in S : y <= x

\* UsageCounter_deviceId_key: the rows of one device.
UsageRows(table, d) == {i \in DOMAIN table : table[i].deviceId = d}
\* scansUsed of the device's row, as an upsert returns it.
ScansUsed(table, d) == table[CHOOSE i \in UsageRows(table, d) : TRUE].scansUsed

\* prisma.usageCounter.upsert: INSERT .. ON CONFLICT (deviceId) DO UPDATE,
\* one statement of the store.
UsageUpsert(table, d, createValue, increment) ==
    IF UsageRows(table, d) # {}
    THEN [i \in DOMAIN table |->
             IF table[i].deviceId = d
             THEN [table[i] EXCEPT !.scansUsed = @ + increment]
             ELSE table[i]]
    ELSE Append(table, [deviceId |-> d, scansUsed |-> createValue])

\* Mutant: create without the conflict clause, a second row for the device.
getOrCreateUsageInsert(table, d) == Append(table, [deviceId |-> d, scansUsed |-> 0])

\* Mutant: update {scansUsed: 0}, the read resets the count.
getOrCreateUsageReset(table, d) ==
    IF UsageRows(table, d) # {}
    THEN [i \in DOMAIN table |->
             IF table[i].deviceId = d THEN [table[i] EXCEPT !.scansUsed = 0] ELSE table[i]]
    ELSE Append(table, [deviceId |-> d, scansUsed |-> 0])

\* Mutant: the update branch counts the read as a scan.
getOrCreateUsageTouch(table, d) == UsageUpsert(table, d, 0, 1)

\* getOrCreateUsage: upsert with update {} and create {scansUsed: 0}.
getOrCreateUsage(table, d) == UsageUpsert(table, d, 0, 0)

\* Mutant: update {decrement: 1}.
incrementScanUsageDown(table, d) == UsageUpsert(table, d, 1, -1)

\* Mutant: update {scansUsed: 1}, the write of a value read before (0 + 1).
incrementScanUsageLostUpdate(table, d) ==
    IF UsageRows(table, d) # {}
    THEN [i \in DOMAIN table |->
             IF table[i].deviceId = d THEN [table[i] EXCEPT !.scansUsed = 1] ELSE table[i]]
    ELSE Append(table, [deviceId |-> d, scansUsed |-> 1])

\* incrementScanUsage: upsert with update {increment: 1}, create {scansUsed: 1}.
incrementScanUsage(table, d) == UsageUpsert(table, d, 1, 1)

\* The statuses that count as subscribed.
ActiveStatuses == {"active", "trialing"}

\* Mutant: status 'active' alone.
QualifiesActiveOnly(row, d, at) ==
    /\ row.deviceId = d
    /\ row.status = "active"
    /\ row.currentPeriodEnd # NullDate
    /\ row.currentPeriodEnd > at

\* Mutant: gte where the code has gt.
QualifiesNotStrict(row, d, at) ==
    /\ row.deviceId = d
    /\ row.status \in ActiveStatuses
    /\ row.currentPeriodEnd # NullDate
    /\ row.currentPeriodEnd >= at

\* The where clause of getEntitlementByDevice's findFirst, at time `at`.
Qualifies(row, d, at) ==
    /\ row.deviceId = d
    /\ row.status \in ActiveStatuses
    /\ row.currentPeriodEnd # NullDate
    /\ row.currentPeriodEnd > at

\* Mutant: orderBy createdAt asc, the oldest qualifying row.
findActiveSubscriptionOldest(table, d, at) ==
    LET m == {i \in DOMAIN table : Qualifies(table[i], d, at)}
    IN  IF m = {} THEN None ELSE Some(table[CHOOSE i \in m : \A j \in m : i <= j])

\* prisma.subscription.findFirst(.. orderBy createdAt desc): rows are kept
\* in creation order, so the latest is the one with the largest index.
findActiveSubscription(table, d, at) ==
    LET m == {i \in DOMAIN table : Qualifies(table[i], d, at)}
    IN  IF m = {} THEN None ELSE Some(table[Max(m)])

\* Mutant: the subscription found is ignored.
EntitlementResultInactive(sub, scansUsed) ==
    [active |-> FALSE, scansUsed |-> scansUsed, limit |-> FreeLimit, expiresAt |-> NullDate]

\* The result object getEntitlementByDevice builds.
EntitlementResult(sub, scansUsed) ==
    [active |-> sub # None,
     scansUsed |-> scansUsed,
     limit |-> FreeLimit,
     expiresAt |-> IF sub # None /\ sub[1].currentPeriodEnd # NullDate
                   THEN sub[1].currentPeriodEnd ELSE NullDate]

\* Mutant: scansUsed <= 1 where the code has === 0.
canPerformScanOffByOne(entitlement) ==
    IF entitlement.active THEN [canScan |-> TRUE, reason |-> Null]
    ELSE IF entitlement.scansUsed <= 1 THEN [canScan |-> TRUE, reason |-> Null]
    ELSE [canScan |-> FALSE, reason |-> "limit_exceeded"]

\* Mutant: the denial carries no reason.
canPerformScanNoReason(entitlement) ==
    IF entitlement.active THEN [canScan |-> TRUE, reason |-> Null]
    ELSE IF entitlement.scansUsed = 0 THEN [canScan |-> TRUE, reason |-> Null]
    ELSE [canScan |-> FALSE, reason |-> Null]

\* canPerformScan's decision on the entitlement it resolved.
canPerformScan(entitlement) ==
    IF entitlement.active THEN [canScan |-> TRUE, reason |-> Null]
    ELSE IF entitlement.scansUsed = 0 THEN [canScan |-> TRUE, reason |-> Null]
    ELSE [canScan |-> FALSE, reason |-> "limit_exceeded"]

\* `${kind}:${id}`
Key(kind, id) == <<kind, id>>

\* Mutant: the unique index spans the device as well.
DeviceMapConflictPerDevice(table, row) ==
    \E i \in DOMAIN table :
        /\ table[i].provider = row.provider
        /\ table[i].key = row.key
        /\ table[i].deviceId = row.deviceId

\* The uniqueness constraint of DeviceMap: one row per (provider, key).
DeviceMapConflict(table, row) ==
    \E i \in DOMAIN table :
        table[i].provider = row.provider /\ table[i].key = row.key

\* Mutant: the conflicting row is updated (an upsert per row).
InsertOverwrite(table, row) ==
    IF DeviceMapConflict(table, row)
    THEN [i \in DOMAIN table |->
             IF table[i].provider = row.provider /\ table[i].key = row.key
             THEN row ELSE table[i]]
    ELSE Append(table, row)

\* One row of createMany under skipDuplicates (ON CONFLICT DO NOTHING).
InsertSkipDuplicate(table, row) ==
    IF DeviceMapConflict(table, row)
    THEN table
    ELSE Append(table, row)

RECURSIVE createManySkipDuplicates(_, _)
createManySkipDuplicates(table, data) ==
    IF data = <<>> THEN table
    ELSE createManySkipDuplicates(InsertSkipDuplicate(table, Head(data)), Tail(data))

\* The rows deviceMap.findFirst's OR clause matches.
DeviceMapMatches(table, subId, customerId) ==
    {i \in DOMAIN table :
        /\ table[i].provider = "stripe"
        /\ table[i].key \in {Key("subscription", subId), Key("customer", customerId)}}

\* subscription.items?.data?.[0]?.price?.recurring?.interval
FirstInterval(obj) == IF obj.items = <<>> THEN Null ELSE obj.items[1]

\* Mutant: any interval that is not yearly counts as monthly.
PlanOfElseMonthly(interval) ==
    IF interval = "year" THEN "annual" ELSE "monthly"

\* plan, from the interval of the first price item.
PlanOf(interval) ==
    IF interval = "month" THEN "monthly"
    ELSE IF interval = "year" THEN "annual" ELSE Null

\* x ? new Date(x * 1000) : null
ToDate(seconds) == IF seconds # 0 THEN seconds * MsPerSecond ELSE NullDate
\* cancel_at_period_end is a boolean: true * 1000 is 1000.
CancelDate(flag) == IF flag THEN ToDate(1) ELSE NullDate

SubRows(table, subId) ==
    {i \in DOMAIN table : table[i].providerSubscriptionId = subId}

\* Mutant: a create that never looks for the row of the subscription id.
subscriptionInsert(table, obj, deviceId) ==
    Append(table,
           [provider |-> "stripe",
            providerCustomerId |-> obj.customer,
            providerSubscriptionId |-> obj.id,
            status |-> obj.status,
            plan |-> PlanOf(FirstInterval(obj)),
            currentPeriodEnd |-> ToDate(obj.current_period_end),
            cancelAtPeriodEnd |-> CancelDate(obj.cancel_at_period_end),
            deviceId |-> deviceId])

\* prisma.subscription.upsert keyed by providerSubscriptionId.
subscriptionUpsert(table, obj, deviceId) ==
    IF SubRows(table, obj.id) # {}
    THEN [i \in DOMAIN table |->
             IF table[i].providerSubscriptionId = obj.id
             THEN [table[i] EXCEPT
                      !.status = obj.status,
                      !.plan = PlanOf(FirstInterval(obj)),
                      !.currentPeriodEnd = ToDate(obj.current_period_end),
                      !.cancelAtPeriodEnd = CancelDate(obj.cancel_at_period_end),
                      !.deviceId = deviceId]
             ELSE table[i]]
    ELSE Append(table,
                [provider |-> "stripe",
                 providerCustomerId |-> obj.customer,
                 providerSubscriptionId |-> obj.id,
                 status |-> obj.status,
                 plan |-> PlanOf(FirstInterval(obj)),
                 currentPeriodEnd |-> ToDate(obj.current_period_end),
                 cancelAtPeriodEnd |-> CancelDate(obj.cancel_at_period_end),
                 deviceId |-> deviceId])

\* prisma.subscription.updateMany({where: {providerSubscriptionId, status?}, data: {status}})
\* `only` is the status the where clause asks for, Null when it asks for none.
subscriptionUpdateMany(table, subId, only, status) ==
    [i \in DOMAIN table |->
        IF /\ table[i].providerSubscriptionId = subId
           /\ (only = Null \/ table[i].status = only)
        THEN [table[i] EXCEPT !.status = status]
        ELSE table[i]]

\* Mutant: a deleteMany in place of the status update.
markCanceledDelete(table, subId) ==
    LET Kept(row) == row.providerSubscriptionId # subId
    IN  SelectSeq(table, Kept)
\* Mutant: the where clause asks for a status no row has.
markCanceledUnpaidOnly(table, subId) == subscriptionUpdateMany(table, subId, "unpaid", "canceled")
\* case "customer.subscription.deleted"
markCanceled(table, subId) == subscriptionUpdateMany(table, subId, Null, "canceled")
\* case "invoice.payment_failed"
markPastDue(table, subId) == subscriptionUpdateMany(table, subId, Null, "past_due")
\* Mutant: the where clause has no status filter.
reactivateAny(table, subId) == subscriptionUpdateMany(table, subId, Null, "active")
\* Mutant: the where clause names another status.
reactivateUnpaid(table, subId) == subscriptionUpdateMany(table, subId, "unpaid", "active")
\* case "invoice.paid"
reactivate(table, subId) == subscriptionUpdateMany(table, subId, "past_due", "active")

\* status of the row with this subscription id, Null when there is none
StatusOf(table, subId) ==
    IF SubRows(table, subId) = {} THEN Null
    ELSE table[CHOOSE i \in SubRows(table, subId) : TRUE].status

(* ------------------------ POST /webhooks/stripe ----------------------- *)
\* sig is the stripe-signature header of the request, failed says that a
\* store call of the event's case rejected and was caught.
IdleHook ==
    [pc |-> "idle", event |-> Null, map |-> Null, status |-> "pending",
     sig |-> Null, failed |-> FALSE]

\* The stripe-signature header of a request: absent, a value that is no
\* signature of the body under STRIPE_WEBHOOK_SECRET, or one that is.
SignatureHeaders == {Null, "forged", "signed"}

\* Mutant: only the presence of the header is tested.
SignatureAcceptedIfPresent(sig) == sig # Null

\* if (!sig) return 400; stripe.webhooks.constructEvent throws on a header
\* that does not verify, and the catch returns 400.
SignatureAccepted(sig) == sig # Null /\ sig = "signed"

\* Mutant: the idempotency check and the key see no row.
LedgerRowsNone(table, e) == 0
\* The WebhookEvent rows with this id (provider and type are functions of it).
LedgerRows(table, e) == table[e]

\* One write an event made to the row of subscription id s, for the history.
Note(e, before, after) ==
    [event |-> e, type |-> StripeEvents[e].type, before |-> before, after |-> after]

Record(s, e, table) ==
    IF s \in SubIds /\ SubRows(table, s) # {}
    THEN [hist EXCEPT ![s] = Append(@, Note(e, StatusOf(Subscription, s), StatusOf(table, s)))]
    ELSE hist

Respond(w, code) ==
    hook' = [hook EXCEPT ![w].pc = "done", ![w].status = code]

\* The request arrives; stripe.webhooks.constructEvent verifies it and the
\* handler issues webhookEvent.findUnique.
HookReceive(w, events) ==
    /\ hook[w].pc \in {"idle", "done"}
    /\ \E sig \in SignatureHeaders :
          IF SignatureAccepted(sig)
          THEN \E e \in events :
                  hook' = [hook EXCEPT
                              ![w] = [IdleHook EXCEPT !.pc = "find", !.event = e, !.sig = sig]]
          ELSE hook' = [hook EXCEPT
                           ![w] = [IdleHook EXCEPT !.pc = "done", !.status = "400", !.sig = sig]]
    /\ UNCHANGED <<UsageCounter, Subscription, DeviceMap, WebhookEvent, now, lemon, Device, req,
                   applied, hist, incrDone>>

\* webhookEvent.findUnique answers: an existing row ends the request with 200.
HookFind(w) ==
    /\ hook[w].pc = "find"
    /\ IF LedgerRows(WebhookEvent, hook[w].event) > 0
       THEN Respond(w, "200")
       ELSE hook' = [hook EXCEPT ![w].pc = "create"]
    /\ UNCHANGED <<UsageCounter, Subscription, DeviceMap, WebhookEvent, now, lemon, Device, req,
                   applied, hist, incrDone>>

\* Mutant: the switch is entered before the ledger row is written.
HookCreateDeferred(w) ==
    /\ hook[w].pc = "create"
    /\ hook' = [hook EXCEPT ![w].pc = "apply"]
    /\ UNCHANGED <<UsageCounter, Subscription, DeviceMap, WebhookEvent, now, lemon, Device, req,
                   applied, hist, incrDone>>

\* webhookEvent.create: WebhookEvent_pkey rejects a second row of the id; the
\* await is outside the try, so the handler ends there and sends no response.
HookCreate(w) ==
    /\ hook[w].pc = "create"
    /\ IF LedgerRows(WebhookEvent, hook[w].event) > 0
       THEN /\ Respond(w, "unanswered")
            /\ UNCHANGED WebhookEvent
       ELSE /\ WebhookEvent' = [WebhookEvent EXCEPT ![hook[w].event] = @ + 1]
            /\ hook' = [hook EXCEPT ![w].pc = "apply"]
    /\ UNCHANGED <<UsageCounter, Subscription, DeviceMap, now, lemon, Device, req,
                   applied, hist, incrDone>>

\* Mutant: the mappings are written for any subscription-mode session.
ApplyCheckoutUnguarded(w, e, obj) ==
    LET deviceId == IF obj.client_reference_id # Null
                    THEN obj.client_reference_id ELSE obj.metadata_deviceId
    IN  /\ IF obj.mode = "subscription"
           THEN DeviceMap' = createManySkipDuplicates(DeviceMap,
                    <<[provider |-> "stripe", key |-> Key("subscription", obj.subscription),
                       deviceId |-> deviceId],
                      [provider |-> "stripe", key |-> Key("customer", obj.customer),
                       deviceId |-> deviceId]>>)
           ELSE UNCHANGED DeviceMap
        /\ Respond(w, "200")
        /\ UNCHANGED <<Subscription, hist>>

\* case "checkout.session.completed"
ApplyCheckout(w, e, obj) ==
    LET deviceId == IF obj.client_reference_id # Null
                    THEN obj.client_reference_id ELSE obj.metadata_deviceId
    IN  /\ IF deviceId # Null /\ obj.mode = "subscription" /\ obj.subscription # Null
           THEN DeviceMap' = createManySkipDuplicates(DeviceMap,
                    <<[provider |-> "stripe", key |-> Key("subscription", obj.subscription),
                       deviceId |-> deviceId],
                      [provider |-> "stripe", key |-> Key("customer", obj.customer),
                       deviceId |-> deviceId]>>)
           ELSE UNCHANGED DeviceMap
        /\ Respond(w, "200")
        /\ UNCHANGED <<Subscription, hist>>

\* Mutant: an event without a mapping is written all the same, with no device.
ApplyFindDeviceOrphan(w, e, obj) ==
    /\ IF DeviceMapMatches(DeviceMap, obj.id, obj.customer) = {}
       THEN hook' = [hook EXCEPT ![w].pc = "upsert", ![w].map = Null]
       ELSE \E i \in DeviceMapMatches(DeviceMap, obj.id, obj.customer) :
               hook' = [hook EXCEPT ![w].pc = "upsert", ![w].map = DeviceMap[i].deviceId]
    /\ UNCHANGED <<Subscription, DeviceMap, hist>>

\* case "customer.subscription.created" / "updated": deviceMap.findFirst.  The
\* query has no orderBy, so the store may return any matching row.
ApplyFindDevice(w, e, obj) ==
    /\ IF DeviceMapMatches(DeviceMap, obj.id, obj.customer) = {}
       THEN Respond(w, "200")
       ELSE \E i \in DeviceMapMatches(DeviceMap, obj.id, obj.customer) :
               hook' = [hook EXCEPT ![w].pc = "upsert", ![w].map = DeviceMap[i].deviceId]
    /\ UNCHANGED <<Subscription, DeviceMap, hist>>

\* The updateMany cases: deleted, invoice.payment_failed, invoice.paid.
ApplyUpdateMany(w, e, obj) ==
    LET subId == IF obj.type = "customer.subscription.deleted" THEN obj.id
                 ELSE obj.subscription
        table == IF obj.type = "customer.subscription.deleted"
                 THEN markCanceled(Subscription, subId)
                 ELSE IF subId = Null THEN Subscription
                 ELSE IF obj.type = "invoice.payment_failed"
                 THEN markPastDue(Subscription, subId)
                 ELSE reactivate(Subscription, subId)
    IN  /\ Subscription' = table
        /\ hist' = Record(subId, e, table)
        /\ Respond(w, "200")
        /\ UNCHANGED DeviceMap

\* Mutant: an unhandled type is answered as a failure.
ApplyDefaultRejects(w, e, obj) ==
    /\ Respond(w, "500")
    /\ UNCHANGED <<Subscription, DeviceMap, hist>>

\* default: the type is logged and the handler goes on to its 200.
ApplyDefault(w, e, obj) ==
    /\ Respond(w, "200")
    /\ UNCHANGED <<Subscription, DeviceMap, hist>>

\* The switch on event.type, up to the case's first store call.
HookApply(w) ==
    /\ hook[w].pc = "apply"
    /\ LET e == hook[w].event
           obj == StripeEvents[e]
       IN  /\ applied' = [applied EXCEPT ![e] = @ + 1]
           /\ CASE obj.type = "checkout.session.completed" -> ApplyCheckout(w, e, obj)
                [] obj.type \in {"customer.subscription.created",
                                 "customer.subscription.updated"} -> ApplyFindDevice(w, e, obj)
                [] obj.type \in {"customer.subscription.deleted", "invoice.payment_failed",
                                 "invoice.paid"} -> ApplyUpdateMany(w, e, obj)
                [] OTHER -> ApplyDefault(w, e, obj)
    /\ UNCHANGED <<UsageCounter, WebhookEvent, now, lemon, Device, req, incrDone>>

\* subscription.upsert of "customer.subscription.created" / "updated", then 200.
HookUpsert(w) ==
    /\ hook[w].pc = "upsert"
    /\ LET e == hook[w].event
           obj == StripeEvents[e]
           table == subscriptionUpsert(Subscription, obj, hook[w].map)
       IN  /\ Subscription' = table
           /\ hist' = Record(obj.id, e, table)
    /\ Respond(w, "200")
    /\ UNCHANGED <<UsageCounter, DeviceMap, WebhookEvent, now, lemon, Device, req, applied, incrDone>>

\* The case of this event's type issues a store call.
HasStoreCall(obj) ==
    CASE obj.type = "checkout.session.completed" ->
            /\ (obj.client_reference_id # Null \/ obj.metadata_deviceId # Null)
            /\ obj.mode = "subscription"
            /\ obj.subscription # Null
      [] obj.type \in {"customer.subscription.created", "customer.subscription.updated",
                       "customer.subscription.deleted"} -> TRUE
      [] obj.type \in {"invoice.payment_failed", "invoice.paid"} -> obj.subscription # Null
      [] OTHER -> FALSE

\* Mutant: the catch removes the event's ledger row.
HookStoreFailsForgets(w) ==
    /\ \/ /\ hook[w].pc \in {"find", "create"}
          /\ Respond(w, "unanswered")
          /\ UNCHANGED <<applied, WebhookEvent>>
       \/ /\ hook[w].pc = "apply"
          /\ HasStoreCall(StripeEvents[hook[w].event])
          /\ applied' = [applied EXCEPT ![hook[w].event] = @ + 1]
          /\ WebhookEvent' = [WebhookEvent EXCEPT ![hook[w].event] = 0]
          /\ hook' = [hook EXCEPT ![w].pc = "done", ![w].status = "200", ![w].failed = TRUE]
       \/ /\ hook[w].pc = "upsert"
          /\ WebhookEvent' = [WebhookEvent EXCEPT ![hook[w].event] = 0]
          /\ hook' = [hook EXCEPT ![w].pc = "done", ![w].status = "200", ![w].failed = TRUE]
          /\ UNCHANGED applied
    /\ UNCHANGED <<UsageCounter, Subscription, DeviceMap, now, lemon, Device, req,
                   hist, incrDone>>

\* The store call a delivery is waiting for rejects.  findUnique and create are
\* awaited before the try: the handler ends there and sends no response.  A
\* call inside the switch is caught and the handler answers 200.
HookStoreFails(w) ==
    /\ \/ /\ hook[w].pc \in {"find", "create"}
          /\ Respond(w, "unanswered")
          /\ UNCHANGED applied
       \/ /\ hook[w].pc = "apply"
          /\ HasStoreCall(StripeEvents[hook[w].event])
          /\ applied' = [applied EXCEPT ![hook[w].event] = @ + 1]
          /\ hook' = [hook EXCEPT ![w].pc = "done", ![w].status = "200", ![w].failed = TRUE]
       \/ /\ hook[w].pc = "upsert"
          /\ hook' = [hook EXCEPT ![w].pc = "done", ![w].status = "200", ![w].failed = TRUE]
          /\ UNCHANGED applied
    /\ UNCHANGED <<UsageCounter, Subscription, DeviceMap, WebhookEvent, now, lemon, Device, req,
                   hist, incrDone>>

HookStep(w, events) ==
    \/ HookReceive(w, events)
    \/ HookFind(w)
    \/ HookCreate(w)
    \/ HookApply(w)
    \/ HookUpsert(w)

(* --------------------- POST /webhooks/lemonsqueezy -------------------- *)
\* What the request body says: a payload naming an event the switch handles,
\* one it does not, a payload without meta.event_name, and text JSON.parse
\* rejects.
LemonTexts == {"order_created", "unknown_event", "no_event_name", "not_json"}

\* req.body as the handler receives it: the raw Buffer of express.raw, or the
\* object an earlier body parser (app.use(express.json())) left there.
LemonBodies ==
    {[raw |-> TRUE, text |-> t] : t \in LemonTexts}
    \cup {[raw |-> FALSE, text |-> t] : t \in LemonTexts \ {"not_json"}}

\* The X-Signature header: absent, not the hex of a digest, or the HMAC of
\* some body text under the webhook secret.
LemonSignatures ==
    {[kind |-> "missing", of |-> Null], [kind |-> "malformed", of |-> Null]}
    \cup {[kind |-> "hmac", of |-> t] : t \in LemonTexts}

\* Mutant: any well-formed digest is accepted.
verifyWebhookSignatureAnyDigest(secret, body, signature) ==
    secret /\ signature.kind = "hmac"

\* verifyWebhookSignature: false without a secret; hmac.update throws on a body
\* that is not a Buffer and timingSafeEqual on a digest of another length, both
\* caught and answered false; otherwise the digests are compared.
verifyWebhookSignature(secret, body, signature) ==
    /\ secret
    /\ body.raw
    /\ signature.kind = "hmac"
    /\ signature.of = body.text

\* JSON.parse(req.body.toString('utf8')) returns (TRUE) or throws (FALSE).
ParsesAsJson(body) == body.text # "not_json"

\* processWebhookEvent: what it logs.  It writes nothing and throws nothing.
processWebhookEvent(body) ==
    IF body.text = "no_event_name" THEN "invalid"
    ELSE IF body.text = "unknown_event" THEN "unhandled"
    ELSE "handled"

IdleLemon ==
    [secret |-> FALSE, body |-> [raw |-> TRUE, text |-> "not_json"],
     signature |-> [kind |-> "missing", of |-> Null],
     status |-> "pending", processed |-> "no"]

\* The handler has no await: one request is one step.
LemonWebhook ==
    /\ \E secret \in BOOLEAN, body \in LemonBodies, signature \in LemonSignatures :
          LET r == [IdleLemon EXCEPT !.secret = secret, !.body = body,
                                     !.signature = signature]
          IN  lemon' =
                 IF signature.kind = "missing" THEN [r EXCEPT !.status = "400"]
                 ELSE IF ~verifyWebhookSignature(secret, body, signature)
                 THEN [r EXCEPT !.status = "400"]
                 ELSE IF ~ParsesAsJson(body) THEN [r EXCEPT !.status = "200"]
                 ELSE [r EXCEPT !.status = "200", !.processed = processWebhookEvent(body)]
    /\ UNCHANGED <<UsageCounter, Subscription, DeviceMap, WebhookEvent, now, req, hook, Device,
                   applied, hist, incrDone>>

(* ------------------- library calls and API requests ------------------- *)
NoGate == [canScan |-> FALSE, reason |-> "pending"]
NoEntitlement == [active |-> FALSE, scansUsed |-> 0, limit |-> 0, expiresAt |-> NullDate]

\* cookie is the fa_device cookie the request carried, setCookie the one the
\* response was given; free says that the gate admitted the request on the
\* free scan of a device it found not active.
IdleCall ==
    [pc |-> "idle", op |-> Null, dev |-> Null, at |-> 0, sub |-> None,
     gate |-> NoGate, ent |-> NoEntitlement, usage |-> 0, status |-> "pending",
     consumed |-> FALSE, work |-> "none", body |-> None, error |-> FALSE,
     cookie |-> Null, setCookie |-> Null, free |-> FALSE]

(* ---------------------------- ensureDeviceId --------------------------- *)
\* The ids uuidv4() has left to give out.
FreshIds == {"u1", "u2"}

DeviceRows(table, id) == {i \in DOMAIN table : table[i].id = id}

\* Mutant: update {}, a known device keeps its old lastSeen.
deviceUpsertCreateOnly(table, id, at) ==
    IF DeviceRows(table, id) # {}
    THEN table
    ELSE Append(table, [id |-> id, lastSeen |-> at])

\* prisma.device.upsert({where: {id}, update: {lastSeen}, create: {id, lastSeen}})
deviceUpsert(table, id, at) ==
    IF DeviceRows(table, id) # {}
    THEN [i \in DOMAIN table |->
             IF table[i].id = id THEN [table[i] EXCEPT !.lastSeen = at] ELSE table[i]]
    ELSE Append(table, [id |-> id, lastSeen |-> at])

\* The ids a request or a Device row already holds.
IdsInUse ==
    {Device[i].id : i \in DOMAIN Device} \cup {req[p].dev : p \in Callers}

\* The fa_device cookie a client can send: none, one with an empty value, the
\* id of a device from before, or an id the server has stored.
Cookies == {Null, "", "d1"} \cup {Device[i].id : i \in DOMAIN Device}

\* An /api request arrives: the id is the cookie's, or a new uuid that is
\* also set as the cookie when the cookie is absent or empty (!id).
DeviceStart(p) ==
    /\ req[p].pc \in {"idle", "done", "routed"}
    /\ \E c \in Cookies :
          IF c = Null \/ c = ""
          THEN \E id \in FreshIds \ IdsInUse :
                  req' = [req EXCEPT ![p] = [IdleCall EXCEPT
                             !.pc = "ensure", !.cookie = c, !.dev = id, !.setCookie = id]]
          ELSE req' = [req EXCEPT ![p] = [IdleCall EXCEPT
                          !.pc = "ensure", !.cookie = c, !.dev = c]]
    /\ UNCHANGED <<UsageCounter, Subscription, DeviceMap, WebhookEvent, now, lemon, Device,
                   hook, applied, hist, incrDone>>

\* device.upsert answers; req.deviceId = id; next().
DeviceUpsert(p) ==
    /\ req[p].pc = "ensure"
    /\ Device' = deviceUpsert(Device, req[p].dev, now)
    /\ req' = [req EXCEPT ![p].pc = "routed"]
    /\ UNCHANGED <<UsageCounter, Subscription, DeviceMap, WebhookEvent, now, lemon,
                   hook, applied, hist, incrDone>>

\* device.upsert rejects: the catch logs; req.deviceId = id; next().
DeviceUpsertFails(p) ==
    /\ req[p].pc = "ensure"
    /\ req' = [req EXCEPT ![p].pc = "routed", ![p].error = TRUE]
    /\ UNCHANGED <<UsageCounter, Subscription, DeviceMap, WebhookEvent, now, lemon, Device,
                   hook, applied, hist, incrDone>>

ensureDeviceId(p) ==
    \/ DeviceStart(p)
    \/ DeviceUpsert(p)
    \/ DeviceUpsertFails(p)

\* The body of the 402 response: {requirePaywall: true, reason: reason || 'limit_exceeded'}.
PaywallBody(gate) ==
    [requirePaywall |-> TRUE,
     reason |-> IF gate.reason # Null THEN gate.reason ELSE "limit_exceeded"]

\* The direct calls of the library's exports (entitlement.js).
LibOps == {"getEntitlementByDevice", "canPerformScan", "incrementScanUsage"}
\* The routes: GET /api/entitlement, POST /api/scan, POST /api/analyze.
ApiOps == {"entitlement", "scan", "analyze"}
GatedOps == {"scan", "analyze"}

\* incrementScanUsage calls of device d that have started and not finished.
Incrementing(d) == {p \in Callers : req[p].pc = "incr" /\ req[p].dev = d}

\* The call or request starts and runs to its first store call.  `new Date()`
\* is evaluated when the findFirst is issued.
CallStart(p, ops, devices) ==
    /\ req[p].pc \in {"idle", "done"}
    /\ \E op \in ops, d \in devices :
          LET fresh == [IdleCall EXCEPT !.op = op, !.dev = d, !.at = now]
          IN  \/ /\ op \in {"scan", "analyze", "canPerformScan"}
                 /\ req' = [req EXCEPT ![p] = [fresh EXCEPT !.pc = "gate_find"]]
              \/ /\ op = "analyze"      \* neither req.file nor req.body.image
                 /\ req' = [req EXCEPT ![p] = [fresh EXCEPT !.pc = "done", !.status = "400"]]
              \/ /\ op \in {"entitlement", "getEntitlementByDevice"}
                 /\ req' = [req EXCEPT ![p] = [fresh EXCEPT !.pc = "ent_find"]]
              \/ /\ op = "incrementScanUsage"
                 /\ incrDone[d] + Cardinality(Incrementing(d)) < MaxScans
                 /\ req' = [req EXCEPT ![p] = [fresh EXCEPT !.pc = "incr"]]
    /\ UNCHANGED <<UsageCounter, Subscription, DeviceMap, WebhookEvent, now, lemon, Device, hook,
                   applied, hist, incrDone>>

\* getEntitlementByDevice: subscription.findFirst answers.
FindSubscription(p, from, to) ==
    /\ req[p].pc = from
    /\ req' = [req EXCEPT
                 ![p].pc = to,
                 ![p].sub = findActiveSubscription(Subscription, req[p].dev, req[p].at)]
    /\ UNCHANGED <<UsageCounter, Subscription, DeviceMap, WebhookEvent, now, lemon, Device, hook,
                   applied, hist, incrDone>>

\* canPerformScan's getEntitlementByDevice queries the subscription.
GateFind(p) == FindSubscription(p, "gate_find", "gate_usage")

\* getOrCreateUsage answers inside canPerformScan; the gate decides; the route
\* answers 402 or issues its own getEntitlementByDevice.
GateUsage(p) ==
    /\ req[p].pc = "gate_usage"
    /\ LET table == getOrCreateUsage(UsageCounter, req[p].dev)
           ent == EntitlementResult(req[p].sub, ScansUsed(table, req[p].dev))
           gate == canPerformScan(ent)
           r == [req[p] EXCEPT !.sub = None, !.gate = gate,
                               !.free = gate.canScan /\ ~ent.active]
       IN  /\ UsageCounter' = table
           /\ req' = [req EXCEPT ![p] =
                 IF req[p].op = "canPerformScan" THEN [r EXCEPT !.pc = "done", !.ent = ent]
                 ELSE IF ~gate.canScan
                 THEN [r EXCEPT !.pc = "done", !.status = "402",
                                !.body = Some(PaywallBody(gate))]
                 ELSE [r EXCEPT !.pc = "ent_find", !.at = now]]
    /\ UNCHANGED <<Subscription, DeviceMap, WebhookEvent, now, lemon, Device, hook, applied, hist,
                   incrDone>>

\* getEntitlementByDevice (the route's own call, or the direct call) queries
\* the subscription.
EntFind(p) == FindSubscription(p, "ent_find", "ent_usage")

\* getOrCreateUsage answers; the entitlement is returned.  GET /api/entitlement
\* sends it; a gated route increments when it is not active.
EntUsage(p) ==
    /\ req[p].pc = "ent_usage"
    /\ LET table == getOrCreateUsage(UsageCounter, req[p].dev)
           ent == EntitlementResult(req[p].sub, ScansUsed(table, req[p].dev))
           r == [req[p] EXCEPT !.sub = None]
       IN  /\ UsageCounter' = table
           /\ req' = [req EXCEPT ![p] =
                 IF req[p].op = "getEntitlementByDevice"
                 THEN [r EXCEPT !.pc = "done", !.ent = ent]
                 ELSE IF req[p].op = "entitlement"
                 THEN [r EXCEPT !.pc = "done", !.ent = ent, !.status = "200"]
                 ELSE IF ~ent.active THEN [r EXCEPT !.pc = "incr"]
                 ELSE IF req[p].op = "scan" THEN [r EXCEPT !.pc = "scan"]
                 ELSE [r EXCEPT !.pc = "done", !.status = "200", !.work = "ok"]]
    /\ UNCHANGED <<Subscription, DeviceMap, WebhookEvent, now, lemon, Device, hook, applied, hist,
                   incrDone>>

\* incrementScanUsage's upsert answers.  POST /api/analyze then answers
\* {ok: true}; POST /api/scan goes on to doScan.
Increment(p) ==
    /\ req[p].pc = "incr"
    /\ LET table == incrementScanUsage(UsageCounter, req[p].dev)
           r == [req[p] EXCEPT !.consumed = TRUE]
       IN  /\ UsageCounter' = table
           /\ req' = [req EXCEPT ![p] =
                 IF req[p].op = "incrementScanUsage"
                 THEN [r EXCEPT !.pc = "done", !.usage = ScansUsed(table, req[p].dev)]
                 ELSE IF req[p].op = "scan" THEN [r EXCEPT !.pc = "scan"]
                 ELSE [r EXCEPT !.pc = "done", !.status = "200", !.work = "ok"]]
    /\ incrDone' = [incrDone EXCEPT ![req[p].dev] = @ + 1]
    /\ UNCHANGED <<Subscription, DeviceMap, WebhookEvent, now, lemon, Device, hook, applied, hist>>

\* doScan: no file is 400; the vision call answers (200) or fails (500).
doScan(p) ==
    /\ req[p].pc = "scan"
    /\ \E outcome \in {"no_image", "ok", "failed"} :
          req' = [req EXCEPT
                    ![p].pc = "done",
                    ![p].work = outcome,
                    ![p].status = CASE outcome = "no_image" -> "400"
                                    [] outcome = "ok" -> "200"
                                    [] OTHER -> "500"]
    /\ UNCHANGED <<UsageCounter, Subscription, DeviceMap, WebhookEvent, now, lemon, Device, hook,
                   applied, hist, incrDone>>

\* The store query a request is waiting for rejects.  GET /api/entitlement and
\* POST /api/scan catch it and answer 500.  POST /api/analyze awaits without a
\* try/catch and the promise the async handler returns is not observed by the
\* router, so the rejection reaches no error middleware and no response is sent.
StoreFails(p) ==
    /\ req[p].pc \in {"gate_find", "gate_usage", "ent_find", "ent_usage", "incr"}
    /\ req[p].op \in ApiOps
    /\ req' = [req EXCEPT ![p] =
                 [@ EXCEPT !.pc = "done", !.sub = None, !.error = TRUE,
                           !.status = IF req[p].op = "analyze" THEN "unanswered"
                                      ELSE "500"]]
    /\ UNCHANGED <<UsageCounter, Subscription, DeviceMap, WebhookEvent, now, hook, lemon, Device,
                   applied, hist, incrDone>>

\* A direct call of one of the library's exports.
LibCall(p, devices) ==
    \/ CallStart(p, LibOps, devices)
    \/ GateFind(p)
    \/ GateUsage(p)
    \/ EntFind(p)
    \/ EntUsage(p)
    \/ Increment(p)

\* A request to one of the API routes.
ApiRequest(p, devices) ==
    \/ CallStart(p, ApiOps, devices)
    \/ GateFind(p)
    \/ GateUsage(p)
    \/ EntFind(p)
    \/ EntUsage(p)
    \/ Increment(p)
    \/ doScan(p)

\* A direct call of getEntitlementByDevice.
EntCall(p, devices) ==
    \/ CallStart(p, {"getEntitlementByDevice"}, devices)
    \/ EntFind(p)
    \/ EntUsage(p)

\* A direct call of getEntitlementByDevice or of canPerformScan.
QueryCall(p, devices) ==
    \/ CallStart(p, {"getEntitlementByDevice", "canPerformScan"}, devices)
    \/ GateFind(p)
    \/ GateUsage(p)
    \/ EntFind(p)
    \/ EntUsage(p)

\* A POST /api/scan request.
ScanRequest(p, devices) ==
    \/ CallStart(p, {"scan"}, devices)
    \/ GateFind(p)
    \/ GateUsage(p)
    \/ EntFind(p)
    \/ EntUsage(p)
    \/ Increment(p)
    \/ doScan(p)

(* ------------------------------- clock -------------------------------- *)
Tick ==
    /\ now < MaxTime * MsPerSecond
    /\ now' = now + MsPerSecond
    /\ UNCHANGED <<UsageCounter, Subscription, DeviceMap, WebhookEvent, req, hook, lemon, Device,
                   applied, hist, incrDone>>

(* --------------------------- specifications --------------------------- *)
Init ==
    /\ UsageCounter = <<>>
    /\ Subscription = <<>>
    /\ DeviceMap = <<>>
    /\ WebhookEvent = [e \in EventIds |-> 0]
    /\ now = 0
    /\ req = [p \in Callers |-> IdleCall]
    /\ hook = [w \in Hooks |-> IdleHook]
    /\ lemon = IdleLemon
    /\ Device = <<>>
    /\ applied = [e \in EventIds |-> 0]
    /\ hist = [s \in SubIds |-> <<>>]
    /\ incrDone = [d \in Devices |-> 0]

\* Deliveries handled one at a time: every event, in every order.
SeqEvents == {"evt_1", "evt_2", "evt_3", "evt_4", "evt_5", "evt_6", "evt_7", "evt_8"}
NextSeq == HookStep(1, SeqEvents)
SpecSeq == Init /\ [][NextSeq]_vars

\* Concurrent deliveries.
ConcurrentEvents == {"evt_1", "evt_3", "evt_4"}
NextHook == \E w \in Hooks : HookStep(w, ConcurrentEvents)
SpecHook == Init /\ [][NextHook]_vars

\* The library's exports called directly for device d1, against a store as the
\* routes leave it: at most one Subscription row per subscription id, written by
\* the webhook route for d1 or for d2, and possibly d2's usage counter.
SeedRow(subId, d, status) ==
    [provider |-> "stripe", providerCustomerId |-> "c1", providerSubscriptionId |-> subId,
     status |-> status, plan |-> "monthly", currentPeriodEnd |-> ToDate(1),
     cancelAtPeriodEnd |-> NullDate, deviceId |-> d]
SeedStatuses == {"active", "trialing", "past_due", "canceled"}
SeedUsage == <<[deviceId |-> "d2", scansUsed |-> 1]>>
SeedStores ==
    {[subs |-> <<>>, usage |-> <<>>]}
    \cup {[subs |-> <<SeedRow("s1", "d1", st)>>, usage |-> <<>>] : st \in SeedStatuses}
    \cup {[subs |-> <<SeedRow("s2", "d2", "active")>>, usage |-> SeedUsage],
          [subs |-> <<SeedRow("s2", "d2", "trialing"), SeedRow("s1", "d1", "active")>>,
           usage |-> SeedUsage]}

InitLib ==
    /\ \E store \in SeedStores :
          /\ UsageCounter = store.usage
          /\ Subscription = store.subs
          /\ incrDone = [d \in Devices |->
                            IF UsageRows(store.usage, d) = {} THEN 0
                            ELSE ScansUsed(store.usage, d)]
    /\ DeviceMap = <<>>
    /\ WebhookEvent = [e \in EventIds |-> 0]
    /\ now = 0
    /\ req = [p \in Callers |-> IdleCall]
    /\ hook = [w \in Hooks |-> IdleHook]
    /\ lemon = IdleLemon
    /\ Device = <<>>
    /\ applied = [e \in EventIds |-> 0]
    /\ hist = [s \in SubIds |-> <<>>]

NextLib ==
    \/ \E p \in Callers : LibCall(p, {"d1"})
    \/ Tick
SpecLib == InitLib /\ [][NextLib]_vars

\* The server: the API routes, the webhook route and the clock.
ApiEvents == {"evt_1", "evt_4"}
Next ==
    \/ \E p \in Callers : ApiRequest(p, {"d1"})
    \/ HookStep(1, ApiEvents)
    \/ Tick
Spec == Init /\ [][Next]_vars

\* The API routes called for device d1 while no webhook arrives, against a
\* store as earlier requests and deliveries leave it: d1 with or without a
\* Subscription row, having used its free scan or not; store calls can fail.
GateUsage1 == <<[deviceId |-> "d1", scansUsed |-> 1]>>
GateStatuses == {"active", "trialing", "past_due"}
GateStores ==
    {[subs |-> subs, usage |-> usage] :
        subs \in {<<>>} \cup {<<SeedRow("s1", "d1", st)>> : st \in GateStatuses},
        usage \in {<<>>, GateUsage1}}

InitGate ==
    /\ \E store \in GateStores :
          /\ UsageCounter = store.usage
          /\ Subscription = store.subs
          /\ incrDone = [d \in Devices |->
                            IF UsageRows(store.usage, d) = {} THEN 0
                            ELSE ScansUsed(store.usage, d)]
    /\ DeviceMap = <<>>
    /\ WebhookEvent = [e \in EventIds |-> 0]
    /\ now = 0
    /\ req = [p \in Callers |-> IdleCall]
    /\ hook = [w \in Hooks |-> IdleHook]
    /\ lemon = IdleLemon
    /\ Device = <<>>
    /\ applied = [e \in EventIds |-> 0]
    /\ hist = [s \in SubIds |-> <<>>]

NextOutage ==
    \/ \E p \in Callers : ApiRequest(p, {"d1"}) \/ StoreFails(p)
    \/ Tick
SpecOutage == InitGate /\ [][NextOutage]_vars

\* The same store with every query answered, and POST /api/scan requests only.
NextGate ==
    \/ \E p \in Callers : ScanRequest(p, {"d1"})
    \/ Tick
SpecGate == InitGate /\ [][NextGate]_vars

\* Deliveries handled one at a time while getEntitlementByDevice is called for
\* device d1, one call after the other, and time passes.
FeedEvents == {"evt_1", "evt_3", "evt_4", "evt_5", "evt_6", "evt_7"}
NextFeed ==
    \/ HookStep(1, FeedEvents)
    \/ EntCall(1, {"d1"})
    \/ Tick
SpecFeed == Init /\ [][NextFeed]_vars

\* Lemon Squeezy webhook requests while Stripe deliveries fill the store.
LemonEvents == {"evt_1", "evt_4"}
NextLemon ==
    \/ LemonWebhook
    \/ HookStep(1, LemonEvents)
SpecLemon == Init /\ [][NextLemon]_vars

\* getEntitlementByDevice called for device d1 while time passes and no webhook
\* arrives, against Subscription rows of every status the webhook route can
\* store (Stripe's own 'unpaid' included) and of every kind of period end: NULL,
\* one second and two seconds after the start.
EntRow(subId, d, status, periodEnd) ==
    [SeedRow(subId, d, status) EXCEPT !.currentPeriodEnd = periodEnd]
EntStatuses == {"active", "trialing", "past_due", "canceled", "unpaid"}
EntPeriodEnds == {NullDate, ToDate(1), ToDate(2)}
EntStores ==
    {<<>>}
    \cup {<<EntRow("s1", "d1", st, pe)>> : st \in EntStatuses, pe \in EntPeriodEnds}
    \cup {<<EntRow("s2", "d2", "active", ToDate(2))>>,
          <<EntRow("s1", "d1", "canceled", ToDate(2)), EntRow("s2", "d2", "active", ToDate(2))>>,
          <<EntRow("s1", "d1", "active", ToDate(1)), EntRow("s2", "d1", "past_due", ToDate(2))>>,
          <<EntRow("s1", "d1", "trialing", NullDate), EntRow("s2", "d1", "trialing", ToDate(2))>>,
          <<EntRow("s1", "d1", "active", ToDate(2)), EntRow("s2", "d1", "trialing", ToDate(1))>>}

InitEnt ==
    /\ UsageCounter = <<>>
    /\ Subscription \in EntStores
    /\ DeviceMap = <<>>
    /\ WebhookEvent = [e \in EventIds |-> 0]
    /\ now = 0
    /\ req = [p \in Callers |-> IdleCall]
    /\ hook = [w \in Hooks |-> IdleHook]
    /\ lemon = IdleLemon
    /\ Device = <<>>
    /\ applied = [e \in EventIds |-> 0]
    /\ hist = [s \in SubIds |-> <<>>]
    /\ incrDone = [d \in Devices |-> 0]

NextEnt ==
    \/ \E p \in Callers : EntCall(p, {"d1"})
    \/ Tick
SpecEnt == InitEnt /\ [][NextEnt]_vars

\* getEntitlementByDevice and canPerformScan called for d1 against the store
\* InitGate describes: d1 with or without a Subscription row, and with a
\* counter at 1 or without a counter.
NextQuery ==
    \/ \E p \in Callers : QueryCall(p, {"d1"})
    \/ Tick
SpecQuery == InitGate /\ [][NextQuery]_vars

\* Deliveries handled one at a time, among them a subscription event of a
\* customer no checkout has mapped, payloads that lack the fields their
\* case reads, and an event of a type without a case.
SkipEvents == {"evt_1", "evt_4", "evt_9", "evt_10", "evt_11", "evt_12", "evt_13", "evt_15"}
NextSkip == HookStep(1, SkipEvents)
SpecSkip == Init /\ [][NextSkip]_vars

\* Concurrent deliveries of checkout events that share a customer id (evt_1,
\* evt_2) or a subscription id (evt_1, evt_14) and name different devices,
\* and of a subscription event that reads the entries they write.
MapEvents == {"evt_1", "evt_2", "evt_14", "evt_4"}
NextMap == \E w \in Hooks : HookStep(w, MapEvents)
SpecMap == Init /\ [][NextMap]_vars

\* Deliveries handled one at a time, with checkouts that map s1 to either
\* device, while a client of d1 calls the API routes.
LinkEvents == {"evt_1", "evt_14", "evt_4", "evt_6"}
NextLink ==
    \/ HookStep(1, LinkEvents)
    \/ ApiRequest(1, {"d1"})
SpecLink == Init /\ [][NextLink]_vars

\* The /api middleware alone: requests arrive with and without the cookie,
\* the store answers or rejects, time passes.
NextDevice ==
    \/ ensureDeviceId(1)
    \/ ensureDeviceId(2)
    \/ Tick
SpecDevice == Init /\ [][NextDevice]_vars

\* Deliveries handled one at a time, among them updates of s1 with every kind
\* of price interval.
PlanEvents == {"evt_1", "evt_3", "evt_4", "evt_16", "evt_17"}
NextPlan == HookStep(1, PlanEvents)
SpecPlan == Init /\ [][NextPlan]_vars

\* Deliveries and redeliveries in two requests at a time against a store
\* whose calls can fail.
RetryEvents == {"evt_1", "evt_4"}
NextRetry ==
    \E w \in Hooks :
        \/ HookStep(w, RetryEvents)
        \/ HookStoreFails(w)
SpecRetry == Init /\ [][NextRetry]_vars

\* Two clients of device d1 calling the API routes while deliveries are
\* handled one at a time and time passes.
NextUsage ==
    \/ ApiRequest(1, {"d1"})
    \/ ApiRequest(2, {"d1"})
    \/ HookStep(1, ApiEvents)
    \/ Tick
SpecUsage == Init /\ [][NextUsage]_vars

\* Deliveries handled one at a time against a store whose calls can fail.
FailEvents == {"evt_1", "evt_4", "evt_6"}
NextFail ==
    \/ HookStep(1, FailEvents)
    \/ HookStoreFails(1)
SpecFail == Init /\ [][NextFail]_vars

(* ------------------------------ properties ---------------------------- *)
\* No row of device d has a status that counts as subscribed.
Unsubscribed(d) ==
    \A i \in DOMAIN Subscription :
        Subscription[i].deviceId = d =>
            Subscription[i].status \notin {"active", "trialing"}

\* Some row of device d is active or trialing with a period end after `at`.
LiveAt(d, at) ==
    \E i \in DOMAIN Subscription :
        /\ Subscription[i].deviceId = d
        /\ Subscription[i].status \in {"active", "trialing"}
        /\ Subscription[i].currentPeriodEnd > at

Allowed == [canScan |-> TRUE, reason |-> Null]
Denied == [canScan |-> FALSE, reason |-> "limit_exceeded"]

\* C1: a canPerformScan call for a device without an active or trialing
\* subscription answers {canScan: true} while no consumption of the device has
\* been recorded, and {canScan: false, reason: 'limit_exceeded'} whenever it
\* decides after one or more recorded consumptions.
C1_FreeScanExhaustion ==
    [][\A p \in Callers :
          (/\ req[p].pc = "gate_usage"
           /\ req[p].op = "canPerformScan"
           /\ req'[p].pc = "done"
           /\ Unsubscribed(req[p].dev))
          => /\ incrDone[req[p].dev] = 0 => req'[p].gate = Allowed
             /\ incrDone[req[p].dev] >= 1 => req'[p].gate = Denied]_vars

C1_Witness ==
    \E p \in Callers :
        /\ req[p].pc = "done"
        /\ req[p].op = "canPerformScan"
        /\ Unsubscribed(req[p].dev)
        /\ incrDone[req[p].dev] = 1
        /\ req[p].ent.scansUsed = 1
        /\ req[p].gate = Denied

\* A gated request of p passed the gate and reached the scan work.
ReachedScan(p) ==
    /\ req[p].op \in GatedOps
    /\ req[p].gate.canScan
    /\ (req[p].pc = "scan" \/ req[p].work # "none")

\* C2: of the POST /api/scan and POST /api/analyze requests of a device that
\* has never had a subscription, at most one is admitted by the gate and
\* reaches the scan work.
C2_AtMostOneFreeScan ==
    \A d \in Devices :
        (\A i \in DOMAIN Subscription : Subscription[i].deviceId # d)
        => Cardinality({p \in Callers : req[p].dev = d /\ ReachedScan(p)}) <= 1

\* C3: a call made while the device has an active or trialing subscription
\* whose period end is in the future returns active: true from
\* getEntitlementByDevice and {canScan: true} from canPerformScan, whatever
\* scansUsed is.  (Under SpecLib no Subscription row changes during a call.)
C3_SubscriberBypass ==
    \A p \in Callers :
        (req[p].pc = "done" /\ LiveAt(req[p].dev, req[p].at))
        => /\ req[p].op = "getEntitlementByDevice" => req[p].ent.active
           /\ req[p].op = "canPerformScan" => req[p].ent.active /\ req[p].gate = Allowed

C3_Witness ==
    \E p \in Callers :
        /\ req[p].pc = "done"
        /\ req[p].op = "canPerformScan"
        /\ LiveAt(req[p].dev, req[p].at)
        /\ req[p].ent.scansUsed >= 1
        /\ req[p].gate = Allowed

\* C4: once incrementScanUsage calls of a device have completed, in any
\* interleaving, the device has exactly one UsageCounter row and its scansUsed
\* is the number of completed calls; every call returned a count it produced.
C4_AtomicIncrement ==
    /\ \A d \in Devices :
          incrDone[d] >= 1 =>
              /\ Cardinality(UsageRows(UsageCounter, d)) = 1
              /\ ScansUsed(UsageCounter, d) = incrDone[d]
    /\ \A p \in Callers :
          (req[p].pc = "done" /\ req[p].op = "incrementScanUsage")
          => req[p].usage \in 1..incrDone[req[p].dev]

C4_Witness ==
    \E p, q \in Callers :
        /\ req[p].pc = "done" /\ req[p].op = "incrementScanUsage" /\ req[p].usage = 1
        /\ req[q].pc = "done" /\ req[q].op = "incrementScanUsage" /\ req[q].usage = 2
        /\ req[p].dev = req[q].dev
        /\ Cardinality(UsageRows(UsageCounter, req[p].dev)) = 1
        /\ ScansUsed(UsageCounter, req[p].dev) = 2

\* C5: getEntitlementByDevice calls, sequential or concurrent, leave the device
\* with exactly one UsageCounter row, and that row holds 0 while no consumption
\* has been recorded; no device ever has two rows.
C5_OneUsageRow ==
    /\ \A d \in Devices :
          /\ Cardinality(UsageRows(UsageCounter, d)) <= 1
          /\ (incrDone[d] = 0 /\ UsageRows(UsageCounter, d) # {})
             => ScansUsed(UsageCounter, d) = 0
    /\ \A p \in Callers :
          (req[p].pc = "done" /\ req[p].op = "getEntitlementByDevice")
          => /\ Cardinality(UsageRows(UsageCounter, req[p].dev)) = 1
             /\ incrDone[req[p].dev] = 0 => req[p].ent.scansUsed = 0

C5_Witness ==
    \E p, q \in Callers :
        /\ p # q
        /\ req[p].pc = "done" /\ req[p].op = "getEntitlementByDevice"
        /\ req[q].pc = "done" /\ req[q].op = "getEntitlementByDevice"
        /\ req[p].dev = req[q].dev
        /\ incrDone[req[p].dev] = 0
        /\ Cardinality(UsageRows(UsageCounter, req[p].dev)) = 1
        /\ ScansUsed(UsageCounter, req[p].dev) = 0

\* The deliveries of event e the route is still handling.
InFlight(e) == {w \in Hooks : hook[w].event = e /\ hook[w].pc # "done"}
Answered(e) == {w \in Hooks : hook[w].event = e /\ hook[w].pc = "done"
                                /\ hook[w].status = "200"}

C6_Ledger ==
    \A e \in EventIds :
        /\ WebhookEvent[e] <= 1
        /\ applied[e] <= 1
        /\ Answered(e) # {} => WebhookEvent[e] = 1
        /\ (Answered(e) # {} /\ InFlight(e) = {}) => applied[e] = 1

\* C6: however often a verified event id is delivered, the ledger holds one row
\* of it and its transition is applied once; a delivery that finds the row
\* answers 200 and changes neither the ledger nor DeviceMap nor Subscription.
C6_WebhookIdempotent ==
    [][/\ C6_Ledger'
       /\ \A w \in Hooks :
             (/\ hook[w].pc = "find"
              /\ hook'[w] # hook[w]
              /\ WebhookEvent[hook[w].event] > 0)
             => /\ hook'[w].pc = "done"
                /\ hook'[w].status = "200"
                /\ UNCHANGED <<WebhookEvent, DeviceMap, Subscription, applied>>]_vars

C6_Witness ==
    \E v, w \in Hooks :
        /\ v # w
        /\ hook[v].event = hook[w].event
        /\ hook[v].event # Null
        /\ hook[v].pc = "done" /\ hook[v].status = "200"
        /\ hook[w].pc = "done" /\ hook[w].status = "200"
        /\ WebhookEvent[hook[v].event] = 1
        /\ applied[hook[v].event] = 1

\* C7: every delivery of a verified event ends with a 200 response, the one
\* whose ledger insert hits the uniqueness violation included.
C7_DuplicateInsertAnswers200 ==
    \A w \in Hooks :
        (hook[w].pc = "done" /\ hook[w].event # Null) => hook[w].status = "200"

\* C8: after a customer.subscription.created/updated event with status
\* 'active' and interval 'month' has been ingested while DeviceMap holds an
\* entry for subscription:<id>, the Subscription row of that id is active,
\* monthly and linked to that entry's device.
C8_UpsertLinksMappedDevice ==
    \A w \in Hooks :
        (hook[w].pc = "done" /\ hook[w].event # Null /\ hook[w].status = "200") =>
            LET obj == StripeEvents[hook[w].event]
            IN  (/\ obj.type \in {"customer.subscription.created",
                                  "customer.subscription.updated"}
                 /\ obj.status = "active"
                 /\ FirstInterval(obj) = "month"
                 /\ applied[hook[w].event] = 1
                 /\ hook[w].map # Null)
                => \A i \in DOMAIN DeviceMap :
                      DeviceMap[i].key = Key("subscription", obj.id) =>
                          \E j \in SubRows(Subscription, obj.id) :
                              /\ Subscription[j].status = "active"
                              /\ Subscription[j].plan = "monthly"
                              /\ Subscription[j].deviceId = DeviceMap[i].deviceId

\* C9: when invoice.payment_failed finds the row of its subscription id active
\* and invoice.paid is the next event written to that row, the row goes
\* active -> past_due -> active.
C9_PastDueCycle ==
    \A s \in SubIds : \A i \in DOMAIN hist[s] :
        (/\ i < Len(hist[s])
         /\ hist[s][i].type = "invoice.payment_failed"
         /\ hist[s][i].before = "active"
         /\ hist[s][i + 1].type = "invoice.paid")
        => /\ hist[s][i].after = "past_due"
           /\ hist[s][i + 1].before = "past_due"
           /\ hist[s][i + 1].after = "active"

C9_Witness ==
    \E s \in SubIds : \E i \in DOMAIN hist[s] :
        /\ i + 1 = Len(hist[s])
        /\ hist[s][i].type = "invoice.payment_failed"
        /\ hist[s][i].before = "active"
        /\ hist[s][i + 1].type = "invoice.paid"
        /\ StatusOf(Subscription, s) = "active"

PaymentTypes == {"invoice.payment_failed", "invoice.paid"}

\* C10: once a row is canceled, payment events alone (invoice.payment_failed,
\* invoice.paid, in any order and number) never make it active.
C10_CanceledNotRevivedByPayments ==
    \A s \in SubIds : \A i, j \in DOMAIN hist[s] :
        (/\ i < j
         /\ hist[s][i].after = "canceled"
         /\ \A k \in (i + 1)..j : hist[s][k].type \in PaymentTypes)
        => hist[s][j].after # "active"

\* C11: every delivery of a signature-verified event ends with a 200 response
\* and with the event's row in the ledger, whether the transition was applied
\* or a store call failed on the way.
C11_VerifiedDeliveryNeverFails ==
    \A w \in Hooks :
        (hook[w].pc = "done" /\ hook[w].event # Null)
        => /\ hook[w].status = "200"
           /\ WebhookEvent[hook[w].event] = 1

\* C12: a request during which a store query was rejected ends with a 500
\* response, without scan work and without an entitlement in the response.
C12_StoreFailureAnswers5xx ==
    \A p \in Callers :
        (req[p].pc = "done" /\ req[p].error)
        => /\ req[p].status = "500"
           /\ req[p].work = "none"
           /\ req[p].ent = NoEntitlement

PaywallResponse == Some([requirePaywall |-> TRUE, reason |-> "limit_exceeded"])

\* C13: whenever the gate of a POST /api/scan request decides canScan: false,
\* canPerformScan returned {canScan: false, reason: 'limit_exceeded'} (it did
\* not throw) and the request ends with status 402 and the body
\* {requirePaywall: true, reason: 'limit_exceeded'}.
C13_DenialIs402 ==
    \A p \in Callers :
        (req[p].gate # NoGate /\ ~req[p].gate.canScan)
        => /\ req[p].gate = Denied
           /\ ~req[p].error
           /\ req[p].pc = "done"
           /\ req[p].status = "402"
           /\ req[p].body = PaywallResponse

C13_Witness ==
    \E p \in Callers :
        /\ req[p].op = "scan"
        /\ req[p].gate = Denied
        /\ req[p].status = "402"
        /\ req[p].body = PaywallResponse

\* scansUsed of device d as getOrCreateUsage reports it: 0 when d has no row.
UsedBy(table, d) == IF UsageRows(table, d) = {} THEN 0 ELSE ScansUsed(table, d)

\* C14: a request is at doScan, or has run it, only if its gate check returned
\* canScan: true; the step in which a request is denied leaves the device's
\* scansUsed as it was, and a denied request has run no scan work and recorded
\* no consumption.
C14_ScanOnlyAfterGate ==
    [][\A p \in Callers :
          /\ (req'[p].pc = "scan" \/ req'[p].work # "none") => req'[p].gate = Allowed
          /\ req'[p].status = "402"
             => /\ req'[p].pc = "done"
                /\ req'[p].work = "none"
                /\ ~req'[p].consumed
          /\ (req[p].pc = "gate_usage" /\ req'[p].status = "402")
             => UsedBy(UsageCounter', req[p].dev) = UsedBy(UsageCounter, req[p].dev)]_vars

C14_Witness ==
    \E p, q \in Callers :
        /\ req[p].status = "402" /\ req[p].work = "none"
        /\ req[q].status = "200" /\ req[q].work = "ok" /\ req[q].gate = Allowed
        /\ req[p].dev = req[q].dev
        /\ UsedBy(UsageCounter, req[p].dev) = 1

\* C17: a POST /api/scan request whose scan work was not attempted (no image)
\* or failed (vision provider error) has recorded no consumption.
C17_FailedScanKeepsFreeScan ==
    \A p \in Callers :
        (req[p].pc = "done" /\ req[p].op = "scan" /\ req[p].work \in {"no_image", "failed"})
        => ~req[p].consumed

\* C18: a POST /api/scan request records its consumption only after its scan
\* work has run: gate check, scan work, then incrementScanUsage.
C18_ConsumptionAfterScanWork ==
    \A p \in Callers :
        (req[p].op = "scan" /\ req[p].consumed)
        => /\ req[p].gate = Allowed
           /\ req[p].work # "none"

\* C19: every step of a POST /api/scan request taken while the device has an
\* active or trialing subscription with a period end in the future leaves the
\* device's scansUsed as it was; once such a request's gate has decided, the
\* decision is canScan: true, the request is not answered 402 and it records
\* no consumption.  (Subscription rows do not change under SpecGate, so a
\* device subscribed now was subscribed since the request began.)
C19_SubscriberUsageUntouched ==
    [][\A p \in Callers :
          (/\ req'[p] # req[p]
           /\ req'[p].op = "scan"
           /\ LiveAt(req'[p].dev, now))
          => /\ UsedBy(UsageCounter', req'[p].dev) = UsedBy(UsageCounter, req'[p].dev)
             /\ req'[p].gate # NoGate => req'[p].gate = Allowed
             /\ req'[p].status # "402"
             /\ ~req'[p].consumed]_vars

C19_Witness ==
    \E p \in Callers :
        /\ req[p].op = "scan"
        /\ req[p].pc = "done"
        /\ req[p].status = "200"
        /\ req[p].work = "ok"
        /\ ~req[p].consumed
        /\ LiveAt(req[p].dev, now)
        /\ UsedBy(UsageCounter, req[p].dev) = 1

\* The last write an ingested event made to the row of subscription id s.
LastWrite(s) == hist[s][Len(hist[s])]

\* Subscription id s is the only subscription device d has a row of.
OnlySubscription(d, s) ==
    /\ SubRows(Subscription, s) # {}
    /\ {i \in DOMAIN Subscription : Subscription[i].deviceId = d} = SubRows(Subscription, s)

\* C15: when the findFirst of a getEntitlementByDevice call for device d runs
\* after a customer.subscription.deleted or invoice.payment_failed event was the
\* last event written to d's only subscription, it finds no row; when it runs
\* after a customer.subscription.created/updated event wrote status active or
\* trialing to a row linked to d whose period end is later than the call's
\* time, it finds a row; and the call returns active: true exactly when its
\* findFirst found a row.
C15_WebhookFeedsEntitlement ==
    [][\A p \in Callers :
          /\ (req[p].pc = "ent_find" /\ req'[p].pc = "ent_usage")
             => \A s \in SubIds :
                   hist[s] # <<>> =>
                      /\ (/\ OnlySubscription(req[p].dev, s)
                          /\ LastWrite(s).type \in {"customer.subscription.deleted",
                                                    "invoice.payment_failed"})
                         => req'[p].sub = None
                      /\ (/\ LastWrite(s).type \in {"customer.subscription.created",
                                                    "customer.subscription.updated"}
                          /\ LastWrite(s).after \in {"active", "trialing"}
                          /\ \E i \in SubRows(Subscription, s) :
                                /\ Subscription[i].deviceId = req[p].dev
                                /\ Subscription[i].currentPeriodEnd > req[p].at)
                         => req'[p].sub # None
          /\ (req[p].pc = "ent_usage" /\ req'[p].pc = "done")
             => req'[p].ent.active = (req[p].sub # None)]_vars

C15_Witness ==
    \E p \in Callers : \E i \in DOMAIN hist["s1"] :
        /\ req[p].pc = "done"
        /\ req[p].op = "getEntitlementByDevice"
        /\ ~req[p].ent.active
        /\ OnlySubscription(req[p].dev, "s1")
        /\ hist["s1"][i].after = "active"
        /\ i < Len(hist["s1"])
        /\ LastWrite("s1").type = "customer.subscription.deleted"
        /\ LastWrite("s1").after = "canceled"
        /\ \E j \in SubRows(Subscription, "s1") :
              Subscription[j].currentPeriodEnd > req[p].at

\* The signature of the answered request verifies: a secret is configured and
\* the X-Signature header is the HMAC of the raw body the handler received.  A
\* body an earlier parser has already turned into an object cannot be digested
\* and verifies under no header.
LemonVerifies(r) ==
    /\ r.secret
    /\ r.body.raw
    /\ r.signature.kind = "hmac"
    /\ r.signature.of = r.body.text

CountsAsActive(d, at) ==
    \E i \in DOMAIN Subscription :
        /\ Subscription[i].deviceId = d
        /\ Subscription[i].status \in {"active", "trialing"}
        /\ Subscription[i].currentPeriodEnd # NullDate
        /\ Subscription[i].currentPeriodEnd > at

\* C20: getEntitlementByDevice(d) returns active: true if and only if, at the
\* time of the call, some Subscription row linked to d has status active or
\* trialing and a currentPeriodEnd strictly later than that time; a row of
\* another status, with a NULL period end or with a period end at or before
\* that time does not make d active.  (Subscription rows do not change under
\* SpecEnt: only the clock moves.)
C20_ActiveIffLiveRow ==
    \A p \in Callers :
        (req[p].pc = "done" /\ req[p].op = "getEntitlementByDevice")
        => (req[p].ent.active <=> CountsAsActive(req[p].dev, req[p].at))

\* A call made when the clock has reached the period end of the device's
\* active row: the subscription has stopped counting without any webhook.
C20_Witness ==
    \E p \in Callers :
        /\ req[p].pc = "done"
        /\ req[p].op = "getEntitlementByDevice"
        /\ ~req[p].ent.active
        /\ req[p].at >= MsPerSecond
        /\ \E i \in DOMAIN Subscription :
              /\ Subscription[i].deviceId = req[p].dev
              /\ Subscription[i].status = "active"
              /\ Subscription[i].currentPeriodEnd = req[p].at

\* The rows of device d that are active or trialing with a period end after `at`.
LiveRows(d, at) ==
    {i \in DOMAIN Subscription :
        /\ Subscription[i].deviceId = d
        /\ Subscription[i].status \in {"active", "trialing"}
        /\ Subscription[i].currentPeriodEnd # NullDate
        /\ Subscription[i].currentPeriodEnd > at}

\* C21: in the result of getEntitlementByDevice, limit is 1; expiresAt is
\* present exactly when active is true, and is then the currentPeriodEnd of the
\* most recently created row of the device that is active or trialing with a
\* period end after the time of the call.
C21_ExpiresAtOfLatestRow ==
    \A p \in Callers :
        (req[p].pc = "done" /\ req[p].op = "getEntitlementByDevice")
        => /\ req[p].ent.limit = 1
           /\ req[p].ent.expiresAt # NullDate <=> req[p].ent.active
           /\ req[p].ent.active
              => /\ LiveRows(req[p].dev, req[p].at) # {}
                 /\ req[p].ent.expiresAt =
                       Subscription[Max(LiveRows(req[p].dev, req[p].at))].currentPeriodEnd

\* Two rows of the device qualify and the later one ends sooner.
C21_Witness ==
    \E p \in Callers :
        /\ req[p].pc = "done"
        /\ req[p].op = "getEntitlementByDevice"
        /\ req[p].ent.active
        /\ Cardinality(LiveRows(req[p].dev, req[p].at)) = 2
        /\ req[p].ent.expiresAt = ToDate(1)
        /\ \E i \in LiveRows(req[p].dev, req[p].at) :
              Subscription[i].currentPeriodEnd > req[p].ent.expiresAt

\* C22: a step of getEntitlementByDevice or canPerformScan changes no
\* Subscription, DeviceMap or WebhookEvent row; it leaves every existing
\* UsageCounter row as it was, and the only row it may add is one for the
\* call's device, at 0, when that device had none.
C22_QueriesOnlyCreateCounter ==
    [][\A p \in Callers :
          (req'[p] # req[p] /\ req[p].pc \in {"gate_find", "gate_usage", "ent_find", "ent_usage"})
          => /\ UNCHANGED <<Subscription, DeviceMap, WebhookEvent>>
             /\ \A i \in DOMAIN UsageCounter :
                   i \in DOMAIN UsageCounter' /\ UsageCounter'[i] = UsageCounter[i]
             /\ \/ UsageCounter' = UsageCounter
                \/ /\ UsageRows(UsageCounter, req[p].dev) = {}
                   /\ UsageCounter' = Append(UsageCounter,
                                             [deviceId |-> req[p].dev, scansUsed |-> 0])]_vars

\* Both functions have been called for a device whose counter was at 1, and
\* it is still the one row, at 1.
C22_Witness ==
    \E p, q \in Callers :
        /\ req[p].pc = "done" /\ req[p].op = "canPerformScan"
        /\ req[p].ent.scansUsed = 1
        /\ req[q].pc = "done" /\ req[q].op = "getEntitlementByDevice"
        /\ req[q].dev = req[p].dev
        /\ req[q].ent.scansUsed = 1
        /\ UsageCounter = <<[deviceId |-> req[p].dev, scansUsed |-> 1]>>
        /\ Subscription # <<>>

\* C23: the device a customer.subscription.created/updated delivery resolved
\* and is about to write is the device of the DeviceMap entry for
\* subscription:<id> whenever that entry exists; the entry for customer:<id>
\* decides only when there is no subscription entry.
C23_SubscriptionKeyFirst ==
    \A w \in Hooks :
        hook[w].pc = "upsert" =>
            LET obj == StripeEvents[hook[w].event]
            IN  \A i \in DOMAIN DeviceMap :
                   (DeviceMap[i].provider = "stripe"
                    /\ DeviceMap[i].key = Key("subscription", obj.id))
                   => hook[w].map = DeviceMap[i].deviceId

\* DeviceMap has no entry for the subscription id or the customer id of obj.
Unmapped(obj) ==
    \A i \in DOMAIN DeviceMap :
        ~(/\ DeviceMap[i].provider = "stripe"
          /\ DeviceMap[i].key \in {<<"subscription", obj.id>>, <<"customer", obj.customer>>})

\* The delivery of slot w ended in this step with 200 and its event in the ledger.
Consumed(w) ==
    /\ hook'[w].pc = "done"
    /\ hook'[w].status = "200"
    /\ WebhookEvent'[hook[w].event] = 1

\* C24: when the switch handles a customer.subscription.created/updated event
\* while DeviceMap has no entry for its subscription id or its customer id, no
\* Subscription row is created or modified, DeviceMap is unchanged, the event's
\* row is in the ledger and the handler responds 200.
C24_OrphanSkipped ==
    [][\A w \in Hooks :
          (/\ hook[w].pc = "apply"
           /\ hook'[w] # hook[w]
           /\ StripeEvents[hook[w].event].type \in {"customer.subscription.created",
                                                   "customer.subscription.updated"}
           /\ Unmapped(StripeEvents[hook[w].event]))
          => /\ UNCHANGED <<Subscription, DeviceMap>>
             /\ Consumed(w)]_vars

\* The subscription event of customer c2 was skipped while DeviceMap held the
\* mappings of customer c1.
C24_Witness ==
    \E w \in Hooks :
        /\ hook[w].pc = "done"
        /\ hook[w].event = "evt_9"
        /\ hook[w].status = "200"
        /\ applied["evt_9"] = 1
        /\ WebhookEvent["evt_9"] = 1
        /\ DeviceMap # <<>>
        /\ SubRows(Subscription, "s2") = {}

\* The payload lacks a field its case requires.
Malformed(obj) ==
    \/ /\ obj.type = "checkout.session.completed"
       /\ \/ (obj.client_reference_id = Null /\ obj.metadata_deviceId = Null)
          \/ obj.subscription = Null
    \/ /\ obj.type \in {"invoice.payment_failed", "invoice.paid"}
       /\ obj.subscription = Null

\* C25: when the switch handles a checkout.session.completed event without a
\* device id or without a subscription id, or an invoice event without a
\* subscription id, DeviceMap and Subscription are unchanged, the event's row
\* is in the ledger and the handler responds 200.
C25_MalformedSkipped ==
    [][\A w \in Hooks :
          (/\ hook[w].pc = "apply"
           /\ hook'[w] # hook[w]
           /\ Malformed(StripeEvents[hook[w].event]))
          => /\ UNCHANGED <<Subscription, DeviceMap>>
             /\ Consumed(w)]_vars

\* Every malformed event of the catalogue has been consumed, the last one a
\* checkout without a device id, and the store holds what evt_1 and evt_4 wrote.
C25_Witness ==
    \E w \in Hooks :
        /\ hook[w].pc = "done"
        /\ hook[w].event = "evt_10"
        /\ hook[w].status = "200"
        /\ \A e \in {"evt_10", "evt_11", "evt_12", "evt_13"} :
              applied[e] = 1 /\ WebhookEvent[e] = 1
        /\ Len(DeviceMap) = 2
        /\ StatusOf(Subscription, "s1") = "active"

\* The DeviceMap rows of a key.
MapRows(table, key) ==
    {i \in DOMAIN table : table[i].provider = "stripe" /\ table[i].key = key}

C28_OneRowPerSubscriptionId ==
    \A s \in SubIds : Cardinality(SubRows(Subscription, s)) <= 1

\* Two requests carrying different events for s1 have both run their upsert,
\* the first of the two creating the row, and s1 has its one row.
C28_Witness ==
    \E v, w \in Hooks :
        /\ hook[v].event = "evt_3" /\ hook[v].pc = "done" /\ hook[v].status = "200"
        /\ hook[w].event = "evt_4" /\ hook[w].pc = "done" /\ hook[w].status = "200"
        /\ Len(hist["s1"]) = 2
        /\ hist["s1"][1].before = Null
        /\ Cardinality(SubRows(Subscription, "s1")) = 1

\* C30: the step that handles customer.subscription.deleted for subscription
\* id s keeps every Subscription row in place; a row with that id differs from
\* before in its status only, which is 'canceled'; every other row is as
\* before; no row is added.
C30_DeletedOnlyCancels ==
    [][\A w \in Hooks :
          (/\ hook[w].pc = "apply"
           /\ hook'[w] # hook[w]
           /\ StripeEvents[hook[w].event].type = "customer.subscription.deleted")
          => /\ Len(Subscription') = Len(Subscription)
             /\ \A i \in DOMAIN Subscription :
                   Subscription'[i] =
                      IF Subscription[i].providerSubscriptionId = StripeEvents[hook[w].event].id
                      THEN [Subscription[i] EXCEPT !.status = "canceled"]
                      ELSE Subscription[i]]_vars

\* evt_6 canceled the active row of s1, which keeps its device, plan and period
\* end, next to an untouched active row of s2.
C30_Witness ==
    /\ hook[1].pc = "done"
    /\ hook[1].event = "evt_6"
    /\ hist["s1"] # <<>>
    /\ hist["s1"][Len(hist["s1"])].type = "customer.subscription.deleted"
    /\ hist["s1"][Len(hist["s1"])].before = "active"
    /\ \E i \in SubRows(Subscription, "s1") :
          /\ Subscription[i].status = "canceled"
          /\ Subscription[i].deviceId = "d1"
          /\ Subscription[i].plan = "monthly"
          /\ Subscription[i].currentPeriodEnd = ToDate(1)
    /\ \E j \in SubRows(Subscription, "s2") : Subscription[j].status = "active"

\* C29: in every step, of an entitlement query, a gate check, a scan request,
\* a webhook delivery or the clock, each device has at most one UsageCounter
\* row afterwards and its scansUsed is not lower than before.
C29_UsageMonotone ==
    [][\A d \in Devices :
          /\ Cardinality(UsageRows(UsageCounter', d)) <= 1
          /\ UsedBy(UsageCounter', d) >= UsedBy(UsageCounter, d)]_vars

\* d1 has used a scan, and since then an entitlement query has read the
\* counter and a webhook event has activated a subscription for the device.
C29_Witness ==
    \E p, q \in Callers :
        /\ req[p].pc = "done" /\ req[p].op = "scan" /\ req[p].consumed
        /\ req[q].pc = "done" /\ req[q].op = "entitlement"
        /\ req[q].ent.scansUsed >= 1
        /\ req[q].ent.active
        /\ hook[1].pc = "done" /\ hook[1].event = "evt_4"
        /\ UsedBy(UsageCounter, "d1") >= 1
        /\ Cardinality(UsageRows(UsageCounter, "d1")) = 1

\* C31: the step that handles invoice.paid for subscription id s changes no
\* Subscription row other than a row of s whose status is 'past_due', which
\* becomes 'active' and is otherwise as before; a row of s in any other
\* status, and every row of another id, is unchanged.
C31_PaidOnlyLiftsPastDue ==
    [][\A w \in Hooks :
          (/\ hook[w].pc = "apply"
           /\ hook'[w] # hook[w]
           /\ StripeEvents[hook[w].event].type = "invoice.paid")
          => /\ Len(Subscription') = Len(Subscription)
             /\ \A i \in DOMAIN Subscription :
                   Subscription'[i] =
                      IF /\ Subscription[i].providerSubscriptionId =
                               StripeEvents[hook[w].event].subscription
                         /\ Subscription[i].status = "past_due"
                      THEN [Subscription[i] EXCEPT !.status = "active"]
                      ELSE Subscription[i]]_vars

\* invoice.paid has been handled for s1 after the subscription was deleted:
\* the row is still canceled, and the active row of s2 is as it was.
C31_Witness ==
    /\ hook[1].pc = "done"
    /\ hook[1].event = "evt_8"
    /\ hist["s1"] # <<>>
    /\ hist["s1"][Len(hist["s1"])].type = "invoice.paid"
    /\ hist["s1"][Len(hist["s1"])].before = "canceled"
    /\ hist["s1"][Len(hist["s1"])].after = "canceled"
    /\ \E j \in SubRows(Subscription, "s2") : Subscription[j].status = "active"

\* The types the switch has a case for.
HandledTypes ==
    {"checkout.session.completed", "customer.subscription.created",
     "customer.subscription.updated", "customer.subscription.deleted",
     "invoice.payment_failed", "invoice.paid"}

\* C32: the step that handles a verified event of a type outside the six the
\* switch names leaves Subscription, DeviceMap and UsageCounter unchanged, the
\* event has its ledger row, and the request ends with 200.
C32_OtherTypeIgnored ==
    [][\A w \in Hooks :
          (/\ hook[w].pc = "apply"
           /\ hook'[w] # hook[w]
           /\ StripeEvents[hook[w].event].type \notin HandledTypes)
          => /\ UNCHANGED <<Subscription, DeviceMap, UsageCounter>>
             /\ LedgerRows(WebhookEvent', hook[w].event) = 1
             /\ hook'[w].pc = "done"
             /\ hook'[w].status = "200"]_vars

\* The customer.created event has been handled after a subscription was
\* stored: answered 200, ledgered, the stored rows still there.
C32_Witness ==
    /\ hook[1].pc = "done"
    /\ hook[1].event = "evt_15"
    /\ hook[1].status = "200"
    /\ applied["evt_15"] = 1
    /\ LedgerRows(WebhookEvent, "evt_15") = 1
    /\ Len(DeviceMap) = 2
    /\ StatusOf(Subscription, "s1") = "active"

\* C33: a step that changes DeviceMap or Subscription is a step of a request
\* whose event already had its WebhookEvent row before the step, and after
\* every step each event whose case has been entered has a ledger row.
C33_LedgerBeforeTransition ==
    [][/\ (DeviceMap' # DeviceMap \/ Subscription' # Subscription)
          => \E w \in Hooks :
                /\ hook'[w] # hook[w]
                /\ hook[w].pc \in {"apply", "upsert"}
                /\ LedgerRows(WebhookEvent, hook[w].event) >= 1
       /\ \A e \in EventIds : applied'[e] > 0 => LedgerRows(WebhookEvent', e) >= 1]_vars

\* evt_1 wrote its mappings and evt_4 its subscription row, each with its
\* ledger row in place.
C33_Witness ==
    \E w \in Hooks :
        /\ hook[w].pc = "done"
        /\ hook[w].event = "evt_4"
        /\ StatusOf(Subscription, "s1") = "active"
        /\ Len(DeviceMap) = 2
        /\ LedgerRows(WebhookEvent, "evt_1") = 1
        /\ LedgerRows(WebhookEvent, "evt_4") = 1

\* C35: a request whose stripe-signature header is absent or does not verify
\* ends in the step that receives it, with 400 and no event constructed, and
\* that step changes no WebhookEvent, DeviceMap, Subscription or UsageCounter
\* row; only a request whose header verified goes on to the ledger.
C35_UnverifiedChangesNothing ==
    [][\A w \in Hooks :
          (hook'[w] # hook[w] /\ hook'[w].sig # "signed")
          => /\ hook'[w].pc = "done"
             /\ hook'[w].status = "400"
             /\ hook'[w].event = Null
             /\ UNCHANGED <<WebhookEvent, DeviceMap, Subscription, UsageCounter>>]_vars

\* A forged request has been answered 400 next to a verified delivery in
\* flight, after an earlier delivery wrote its rows.
C35_Witness ==
    \E v, w \in Hooks :
        /\ hook[v].sig = "forged"
        /\ hook[v].pc = "done"
        /\ hook[v].status = "400"
        /\ hook[w].sig = "signed"
        /\ hook[w].pc = "apply"
        /\ Len(DeviceMap) = 2
        /\ LedgerRows(WebhookEvent, "evt_1") = 1

\* The request that handled event e ended in a caught store error.
FailedOn(e) ==
    \E v \in Hooks : hook[v].pc = "done" /\ hook[v].failed /\ hook[v].event = e

\* C34: once a request for event e has ended in a caught error of the event's
\* case, no step of a request carrying e enters the case again: such a request
\* gets no further than the ledger lookup, the count of case entries of e
\* stays as it is, and Subscription and DeviceMap are unchanged.
C34_FailedNeverRetried ==
    [][\A e \in EventIds :
          FailedOn(e) =>
             /\ applied'[e] = applied[e]
             /\ \A w \in Hooks :
                   (hook'[w] # hook[w] /\ hook'[w].event = e)
                   => /\ hook'[w].pc \in {"find", "done"}
                      /\ UNCHANGED <<Subscription, DeviceMap>>]_vars

\* The checkout evt_1 failed in its createMany, and its redelivery in another
\* request was answered 200 from the ledger lookup: no mapping was written.
C34_Witness ==
    \E v, w \in Hooks :
        /\ v # w
        /\ hook[v].pc = "done" /\ hook[v].failed /\ hook[v].event = "evt_1"
        /\ hook[w].pc = "done" /\ ~hook[w].failed /\ hook[w].event = "evt_1"
        /\ hook[w].status = "200"
        /\ applied["evt_1"] = 1
        /\ LedgerRows(WebhookEvent, "evt_1") = 1
        /\ DeviceMap = <<>>

\* C36: after the upsert of a customer.subscription.created/updated event the
\* one row of the event's subscription id has plan 'monthly' when the first
\* price item's interval is 'month', 'annual' when it is 'year' and null in
\* every other case, whatever plan the row had before and whatever the later
\* items say, and its status is the event's status.
C36_PlanFromFirstInterval ==
    [][\A w \in Hooks :
          (hook[w].pc = "upsert" /\ hook'[w].pc = "done" /\ ~hook'[w].failed)
          => LET obj == StripeEvents[hook[w].event]
                 first == IF Len(obj.items) = 0 THEN Null ELSE Head(obj.items)
             IN  /\ Cardinality(SubRows(Subscription', obj.id)) = 1
                 /\ \A i \in SubRows(Subscription', obj.id) :
                       /\ Subscription'[i].plan =
                             CASE first = "month" -> "monthly"
                               [] first = "year" -> "annual"
                               [] OTHER -> Null
                       /\ Subscription'[i].status = obj.status]_vars

\* The monthly, active row of s1 was rewritten by evt_16, whose first price
\* item is weekly and whose second is monthly: the plan is null and the status
\* 'unpaid'.
C36_Witness ==
    /\ hook[1].pc = "done"
    /\ hook[1].event = "evt_16"
    /\ hist["s1"] # <<>>
    /\ hist["s1"][Len(hist["s1"])].event = "evt_16"
    /\ hist["s1"][Len(hist["s1"])].before = "active"
    /\ \E i \in SubRows(Subscription, "s1") :
          /\ Subscription[i].plan = Null
          /\ Subscription[i].status = "unpaid"

\* C37: a request that has passed the middleware has one device id: the
\* cookie's when it carried a non-empty fa_device cookie, and then no cookie
\* is set; otherwise an id no request and no Device row held, which is set as
\* the cookie.  When device.upsert answers, the one Device row of that id has
\* lastSeen at the time of the call; when it rejects the request goes on to
\* its route all the same.  No step removes a Device row or changes its id.
C37_DeviceAttribution ==
    [][/\ \A p \in Callers :
             /\ (req'[p] # req[p] /\ req'[p].pc = "ensure")
                => /\ req'[p].dev \notin {Null, ""}
                   /\ IF req'[p].cookie \notin {Null, ""}
                      THEN req'[p].dev = req'[p].cookie /\ req'[p].setCookie = Null
                      ELSE /\ req'[p].setCookie = req'[p].dev
                           /\ DeviceRows(Device, req'[p].dev) = {}
                           /\ \A q \in Callers : req[q].dev # req'[p].dev
             /\ (req[p].pc = "ensure" /\ req'[p] # req[p])
                => /\ req'[p].pc = "routed"
                   /\ req'[p].dev = req[p].dev
                   /\ ~req'[p].error
                      => /\ Cardinality(DeviceRows(Device', req[p].dev)) = 1
                         /\ \A i \in DeviceRows(Device', req[p].dev) :
                               Device'[i].lastSeen = now
       /\ \A i \in DOMAIN Device :
             i \in DOMAIN Device' /\ Device'[i].id = Device[i].id]_vars

\* A client came back with the cookie it had been issued: no new cookie, and
\* the row of its id carries the later time.  Another request went on to its
\* route although its upsert was rejected.
C37_Witness ==
    \E p, q \in Callers :
        /\ req[p].pc = "routed"
        /\ req[p].cookie = "u1"
        /\ req[p].dev = "u1"
        /\ req[p].setCookie = Null
        /\ ~req[p].error
        /\ \E i \in DeviceRows(Device, "u1") : Device[i].lastSeen = MsPerSecond
        /\ req[q].pc = "routed"
        /\ req[q].error
        /\ req[q].setCookie = req[q].dev
        /\ DeviceRows(Device, req[q].dev) = {}

\* C38: once the checkout evt_1 (device d1, subscription s1) and the
\* customer.subscription.created event evt_3 for s1 have both been handled,
\* there is a Subscription row of s1 linked to d1.
C38_CheckoutAndCreatedGiveRow ==
    (/\ \A w \in Hooks : hook[w].pc \in {"idle", "done"}
     /\ applied["evt_1"] >= 1
     /\ applied["evt_3"] >= 1)
    => \E i \in SubRows(Subscription, "s1") : Subscription[i].deviceId = "d1"

\* C39: a POST /api/scan or POST /api/analyze request that the gate admitted
\* and that has made its decision on the counter consumes free quota exactly
\* when the gate admitted it on the free scan of a device it found not active.
C39_ConsumptionAgreesWithGate ==
    \A p \in Callers :
        (/\ req[p].op \in GatedOps
         /\ req[p].gate.canScan
         /\ req[p].pc \in {"incr", "scan", "done"}
         /\ ~req[p].error)
        => ((req[p].consumed \/ req[p].pc = "incr") <=> req[p].free)

\* C40: after every step each Subscription row has a device id, and DeviceMap
\* maps the row's subscription key or its customer key to that device; a step
\* that adds a Subscription row is the upsert of a
\* customer.subscription.created/updated delivery.
C40_RowsLinkedByWebhookOnly ==
    [][/\ \A i \in DOMAIN Subscription' :
             /\ Subscription'[i].deviceId # Null
             /\ \E j \in DOMAIN DeviceMap' :
                   /\ DeviceMap'[j].key \in
                         {Key("subscription", Subscription'[i].providerSubscriptionId),
                          Key("customer", Subscription'[i].providerCustomerId)}
                   /\ DeviceMap'[j].deviceId = Subscription'[i].deviceId
       /\ Len(Subscription') > Len(Subscription)
          => \E w \in Hooks :
                /\ hook[w].pc = "upsert"
                /\ hook'[w].pc = "done"
                /\ StripeEvents[hook[w].event].type \in
                      {"customer.subscription.created", "customer.subscription.updated"}]_vars

\* The row of s1 is linked to d2, the device evt_14 mapped subscription:s1
\* to, has been canceled by evt_6 since, and a scan request of d1 has run.
C40_Witness ==
    /\ \E i \in SubRows(Subscription, "s1") :
          /\ Subscription[i].deviceId = "d2"
          /\ Subscription[i].status = "canceled"
    /\ \E j \in DOMAIN DeviceMap :
          DeviceMap[j].key = Key("subscription", "s1") /\ DeviceMap[j].deviceId = "d2"
    /\ req[1].pc = "done"
    /\ req[1].op = "scan"
    /\ req[1].consumed

====
